---- MODULE Spec2Model ----
(***************************************************************************)
(* Sidestacker: the server's turn arbitration and peer fan-out             *)
(* (server/src/lib.rs, server/src/bin/main.rs) and the client's board      *)
(* (client/src/game/board.rs, client/src/game/mod.rs).                     *)
(*                                                                         *)
(* One task per accepted connection runs `process`.  The tasks share one   *)
(* `Shared` record behind a tokio Mutex.  A step that takes the guard is   *)
(* enabled only while the mutex is free; a socket write made while the     *)
(* guard is held is a step of its own, made with the mutex still taken;    *)
(* the turn test and the commit that follows it are two steps under one    *)
(* guard.  Socket writes complete; channel sends to a dropped receiver     *)
(* fail and are ignored, as `let _ = tx.send(..)` does.                    *)
(***************************************************************************)
EXTENDS Integers, Sequences, FiniteSets, TLC

\* ---------------------------------------------------------------- bounds
MaxConns == 3          \* connections the listener accepts in one run
MaxLines == 3          \* socket read events (line, error, end of stream) in one run
MaxMoves == 1          \* distinct moves the clients submit
BoardHeight == 2       \* rows of the board that insertions are run on
BoardWidth == 3        \* columns of the board that insertions are run on
MaxPieces == 4         \* pieces placed on that board in one run
WinHeight == 4         \* rows of the boards the win check is run on
WinWidth == 5          \* columns of the boards the win check is run on
SessionHeight == 2     \* rows of the board a session is played on
SessionWidth == 5      \* columns of the board a session is played on

\* ------------------------------------------------------ program constants
Height == 7
Width  == 7
UsizeMax == 2147483647 \* usize::MAX, cut to the checker's integers: beyond every index

Conn == 1..MaxConns    \* a connection's SocketAddr

\* ------------------------------------------------------------ vocabulary
Player == {"First", "Second"}

NotIdentity(p) == p

Not(p) == IF p = "First" THEN "Second" ELSE "First"

FromU32Swapped(n) == IF n = 1 THEN "Second" ELSE "First"

FromU32(n) == IF n = 1 THEN "First" ELSE "Second"

Side == {"Left", "Right"}

\* the i-th move the clients may submit: sides alternate, rows grow
MoveOf(i) == [side |-> IF i % 2 = 1 THEN "Left" ELSE "Right", row |-> (i - 1) \div 2]

Move == {MoveOf(i) : i \in 1..MaxMoves}

Turn == [source : Player, mov : Move]

\* serde_json::to_string of a Turn: the object {"source":..,"mov":..}
TurnJson(t) == [tag |-> "Turn", turn |-> t]

\* serde_json::to_string of a Response
ResponseJson(r) == [tag |-> r]

ResponseTurnJson(t) == [tag |-> "Response::Turn", turn |-> t]

WelcomeJson(p, h, w) == [tag |-> "Welcome", player |-> p, height |-> h, width |-> w]

\* a well-formed line that is not a Turn object, e.g. the Request "Join"
OtherLine == [tag |-> "Other"]

NoMsg == [tag |-> "none"]

\* the lines a client may put on its socket
Line == {TurnJson(t) : t \in Turn} \cup {OtherLine}

\* serde_json::from_str::<Turn>: only a Turn object decodes
FromStrTurnOk(msg) == msg.tag = "Turn"

VARIABLES
    players,         \* Shared.players: the registered addresses (keys of the map)
    current_player,  \* Shared.current_player
    turns,           \* Shared.turns
    mutex,           \* holder of the Mutex<Shared>, 0 when free
    chan,            \* per address: content of the mpsc channel (tx in the map, rx in the Peer)
    rx_open,         \* per address: the receiver half still exists
    lines,           \* per address: what the server wrote to the socket, in order
    number,          \* Peer.number
    pc,              \* position of each connection's task
    msg,             \* the `msg` local of the select arm being run
    nread,           \* read events consumed so far (bounded by MaxLines)
    accepted,        \* history: the accepted submissions, in acceptance order
    stamp            \* history: Len(accepted) when the line in msg was read

VARIABLES
    board,           \* a client's Board: rows, height, width
    call,            \* the Board method call at hand and its arguments
    ret,             \* what that call returned
    session,         \* a client's Session: current_player, turns, and where play is
    stream           \* Session.stream: what play wrote to and read from the server

svars == <<players, current_player, turns, mutex, chan, rx_open, lines,
           number, pc, msg, nread, accepted, stamp>>

cvars == <<session, stream>>

bvars == <<board, call, ret, session, stream>>

vars == <<players, current_player, turns, mutex, chan, rx_open, lines,
          number, pc, msg, nread, accepted, stamp, board, call, ret,
          session, stream>>

NoCall == [op |-> "none"]

NoRet == [tag |-> "none"]

NoSession == [at |-> "none"]

NoTraffic == [sent |-> <<>>, received |-> <<>>]

\* no client session is under consideration
SessionIdle ==
    /\ session = NoSession
    /\ stream = NoTraffic

\* no client board is under consideration
BoardIdle ==
    /\ board = [rows |-> <<>>, height |-> 0, width |-> 0]
    /\ call = NoCall
    /\ ret = NoRet
    /\ SessionIdle

\* ------------------------------------------------------------- the mutex
LockBroken(c) == TRUE

\* state.lock().await completes only when nobody holds the guard
Lock(c) == mutex = 0

\* ------------------------------------------------------- Shared's methods
\* UnboundedSender::send: enqueues unless the receiver is gone (error ignored)
Send(ch, to, m) ==
    IF rx_open[to] THEN [ch EXCEPT ![to] = Append(@, m)] ELSE ch

RECURSIVE SendAll(_, _, _)
SendAll(ch, tos, m) ==
    IF tos = {} THEN ch
    ELSE LET to == CHOOSE x \in tos : TRUE
         IN  SendAll(Send(ch, to, m), tos \ {to}, m)

BroadcastToAll(ch, sender, m) == SendAll(ch, players, m)

Broadcast(ch, sender, m) == SendAll(ch, players \ {sender}, m)

\* players.get_mut(&sender).unwrap() panics when the sender has no entry
BackToSenderPanics(sender) == sender \notin players

BackToSender(ch, sender, m) == Send(ch, sender, m)

\* ------------------------------------------------------------------ Init
ServerInit ==
    /\ players = {}
    /\ current_player = "First"
    /\ turns = <<>>
    /\ mutex = 0
    /\ chan = [c \in Conn |-> <<>>]
    /\ rx_open = [c \in Conn |-> FALSE]
    /\ lines = [c \in Conn |-> <<>>]
    /\ number = [c \in Conn |-> 0]
    /\ pc = [c \in Conn |-> "idle"]
    /\ msg = [c \in Conn |-> NoMsg]
    /\ nread = 0
    /\ accepted = <<>>
    /\ stamp = [c \in Conn |-> 0]

Init == ServerInit /\ BoardIdle

\* the task returns or unwinds: the Peer is dropped, and with it the socket
\* and the receiver, whose queued messages are discarded
Drop(c, where) ==
    /\ pc' = [pc EXCEPT ![c] = where]
    /\ rx_open' = [rx_open EXCEPT ![c] = FALSE]
    /\ msg' = [msg EXCEPT ![c] = NoMsg]
    /\ stamp' = [stamp EXCEPT ![c] = 0]

Discard(ch, c) == [ch EXCEPT ![c] = <<>>]

GameIsFullOffByOne(num_players) == num_players > 3

\* Peer::new: `if num_players > 2`
GameIsFull(num_players) == num_players > 2

\* main accepts the next connection and spawns process; Peer::new up to the
\* insert: lock, count, reject or register.  The guard stays held across the
\* Welcome write that follows.  Addresses are numbered in the order in which
\* their tasks get the lock.
PeerNew(c) ==
    /\ pc[c] = "idle"
    /\ \A d \in Conn : d < c => pc[d] # "idle"
    /\ Lock(c)
    /\ LET num_players == Cardinality(players) + 1 IN
       IF GameIsFull(num_players)
       THEN IF BackToSenderPanics(c)
            THEN \* unwrap() on None: the task unwinds, the guard is dropped
                 /\ Drop(c, "panicked")
                 /\ UNCHANGED <<players, chan, number, mutex>>
            ELSE \* GameFull is queued, Ok(None), process returns Err(GameFull)
                 /\ chan' = Discard(BackToSender(chan, c, ResponseJson("GameFull")), c)
                 /\ Drop(c, "rejected")
                 /\ UNCHANGED <<players, number, mutex>>
       ELSE /\ players' = players \cup {c}
            /\ number' = [number EXCEPT ![c] = num_players]
            /\ rx_open' = [rx_open EXCEPT ![c] = TRUE]
            /\ mutex' = c
            /\ pc' = [pc EXCEPT ![c] = "welcome"]
            /\ UNCHANGED <<chan, msg, stamp>>
    /\ UNCHANGED <<current_player, turns, lines, nread, accepted>>
    /\ UNCHANGED bvars

\* Peer::new: lines.send(Welcome{..}).await, then the guard goes out of scope
NewWelcome(c) ==
    /\ pc[c] = "welcome"
    /\ lines' = [lines EXCEPT ![c] =
                    Append(@, WelcomeJson(FromU32(number[c]), Height, Width))]
    /\ mutex' = 0
    /\ pc' = [pc EXCEPT ![c] = "start"]
    /\ UNCHANGED <<players, current_player, turns, chan, rx_open, number, msg,
                   nread, accepted, stamp>>
    /\ UNCHANGED bvars

\* process: the block that broadcasts GameStart
StartBroadcast(c) ==
    /\ pc[c] = "start"
    /\ Lock(c)
    /\ chan' = Broadcast(chan, c, ResponseJson("GameStart"))
    /\ pc' = [pc EXCEPT ![c] = "loop"]
    /\ UNCHANGED <<players, current_player, turns, mutex, rx_open, lines, number,
                   msg, nread, accepted, stamp>>
    /\ UNCHANGED bvars

\* select!: peer.rx.recv() yields Some(msg); relay arm: lock, decode the
\* message as a Turn (`?`), push it.  The guard stays held across the socket
\* write that follows.
RelayRecv(c) ==
    /\ pc[c] = "loop"
    /\ chan[c] # <<>>
    /\ Lock(c)
    /\ IF FromStrTurnOk(Head(chan[c]))
       THEN /\ msg' = [msg EXCEPT ![c] = Head(chan[c])]
            /\ chan' = [chan EXCEPT ![c] = Tail(@)]
            /\ turns' = Append(turns, Head(chan[c]).turn)
            /\ mutex' = c
            /\ pc' = [pc EXCEPT ![c] = "relay_write"]
            /\ UNCHANGED <<rx_open, stamp>>
       ELSE \* `?` returns the decode error: no unregister, the Peer is dropped
            /\ chan' = Discard(chan, c)
            /\ Drop(c, "bad_relay")
            /\ UNCHANGED <<turns, mutex>>
    /\ UNCHANGED <<players, current_player, lines, number, nread, accepted>>
    /\ UNCHANGED bvars

\* relay arm: peer.lines.send(Response::Turn(turn)).await, guard dropped after
RelayWrite(c) ==
    /\ pc[c] = "relay_write"
    /\ lines' = [lines EXCEPT ![c] = Append(@, ResponseTurnJson(msg[c].turn))]
    /\ mutex' = 0
    /\ msg' = [msg EXCEPT ![c] = NoMsg]
    /\ pc' = [pc EXCEPT ![c] = "loop"]
    /\ UNCHANGED <<players, current_player, turns, chan, rx_open, number, nread,
                   accepted, stamp>>
    /\ UNCHANGED bvars

\* select!: peer.lines.next() yields Some(Ok(msg)); the task then awaits the lock
SockRecv(c, l) ==
    /\ pc[c] = "loop"
    /\ nread < MaxLines
    /\ nread' = nread + 1
    /\ msg' = [msg EXCEPT ![c] = l]
    /\ stamp' = [stamp EXCEPT ![c] = Len(accepted)]
    /\ pc' = [pc EXCEPT ![c] = "sock_lock"]
    /\ UNCHANGED <<players, current_player, turns, mutex, chan, rx_open, lines,
                   number, accepted>>
    /\ UNCHANGED bvars

AnySource(source, cp) == TRUE

\* `if turn.source == state.current_player`
TurnAllowed(source, cp) == source = cp

\* socket arm: lock, decode the line as a Turn (`?`), test whose turn it is
SockLockCheck(c) ==
    /\ pc[c] = "sock_lock"
    /\ Lock(c)
    /\ IF FromStrTurnOk(msg[c])
       THEN /\ mutex' = c
            /\ pc' = [pc EXCEPT ![c] =
                        IF TurnAllowed(msg[c].turn.source, current_player)
                        THEN "sock_accept" ELSE "sock_reject"]
            /\ UNCHANGED <<chan, rx_open, msg, stamp>>
       ELSE \* `?` returns the decode error: no unregister, the Peer is dropped
            /\ chan' = Discard(chan, c)
            /\ Drop(c, "bad_line")
            /\ UNCHANGED mutex
    /\ UNCHANGED <<players, current_player, turns, lines, number, nread, accepted>>
    /\ UNCHANGED bvars

\* socket arm, then-branch: push, broadcast, acknowledge, flip
SockAccept(c) ==
    /\ pc[c] = "sock_accept"
    /\ turns' = Append(turns, msg[c].turn)
    /\ chan' = BackToSender(Broadcast(chan, c, msg[c]), c,
                            ResponseJson("Acknowledged"))
    /\ current_player' = Not(current_player)
    /\ accepted' = Append(accepted, [conn |-> c, turn |-> msg[c].turn])
    /\ mutex' = 0
    /\ msg' = [msg EXCEPT ![c] = NoMsg]
    /\ stamp' = [stamp EXCEPT ![c] = 0]
    /\ pc' = [pc EXCEPT ![c] = "loop"]
    /\ UNCHANGED <<players, rx_open, lines, number, nread>>
    /\ UNCHANGED bvars

\* socket arm, else-branch: NotYourTurn back to the sender
SockReject(c) ==
    /\ pc[c] = "sock_reject"
    /\ chan' = BackToSender(chan, c, ResponseJson("NotYourTurn"))
    /\ mutex' = 0
    /\ msg' = [msg EXCEPT ![c] = NoMsg]
    /\ stamp' = [stamp EXCEPT ![c] = 0]
    /\ pc' = [pc EXCEPT ![c] = "loop"]
    /\ UNCHANGED <<players, current_player, turns, rx_open, lines, number, nread,
                   accepted>>
    /\ UNCHANGED bvars

\* select!: peer.lines.next() yields Some(Err(e)): lock, ServerError back to
\* the sender
SockError(c) ==
    /\ pc[c] = "loop"
    /\ nread < MaxLines
    /\ Lock(c)
    /\ nread' = nread + 1
    /\ chan' = BackToSender(chan, c, ResponseJson("ServerError"))
    /\ UNCHANGED <<players, current_player, turns, mutex, rx_open, lines, number,
                   pc, msg, accepted, stamp>>
    /\ UNCHANGED bvars

RemoveAll(ps, c) == {}

\* state.players.remove(&addr)
Remove(ps, c) == ps \ {c}

\* process, after the loop: the disconnect block (lock, remove, broadcast
\* PlayerDisconnected), then Ok(()).  The caller has the lock.
DisconnectBlock(c) ==
    /\ players' = Remove(players, c)
    /\ chan' = Discard(Broadcast(chan, c, ResponseJson("PlayerDisconnected")), c)
    /\ Drop(c, "done")
    /\ UNCHANGED <<current_player, turns, mutex, lines, number, accepted>>
    /\ UNCHANGED bvars

\* select!: peer.lines.next() yields None, `break`; the disconnect block
Leave(c) ==
    /\ pc[c] = "loop"
    /\ nread < MaxLines
    /\ Lock(c)
    /\ nread' = nread + 1
    /\ DisconnectBlock(c)

\* the disconnect block run by a task whose address has no entry in the map
\* (the entry of a reused address was removed by the earlier session)
LeaveAbsent(c) ==
    /\ pc[c] = "idle"
    /\ c \notin players
    /\ nread < MaxLines
    /\ Lock(c)
    /\ nread' = nread + 1
    /\ DisconnectBlock(c)

\* what the runtime does for a task once it can run
TaskStep(c) ==
    \/ NewWelcome(c)
    \/ StartBroadcast(c)
    \/ RelayRecv(c)
    \/ RelayWrite(c)
    \/ SockLockCheck(c)
    \/ SockAccept(c)
    \/ SockReject(c)

\* what starts with an event on the connection: a new connection, a line, a
\* read error, the end of the stream
NetStep(c) ==
    \/ PeerNew(c)
    \/ \E l \in Line : SockRecv(c, l)
    \/ SockError(c)
    \/ Leave(c)

Next == \E c \in Conn : TaskStep(c) \/ NetStep(c)

Spec == Init /\ [][Next]_vars

\* the runtime polls every task that can make progress
FairSpec == Spec /\ \A c \in Conn : WF_vars(TaskStep(c))

\* a move naming the first row number beyond the board
OutOfBoundsMove == [side |-> "Left", row |-> Height]

\* the lines of clients that also submit that move
WideLine == Line \cup {TurnJson([source |-> p, mov |-> OutOfBoundsMove]) : p \in Player}

WideNetStep(c) ==
    \/ PeerNew(c)
    \/ \E l \in WideLine : SockRecv(c, l)
    \/ SockError(c)
    \/ Leave(c)

WideNext == \E c \in Conn : TaskStep(c) \/ WideNetStep(c)

\* the server fed by clients that do not check their moves against a board
WideSpec == Init /\ [][WideNext]_vars

\* the server, with the disconnect block also run for absent addresses
UnregNext == Next \/ \E c \in Conn : LeaveAbsent(c)

UnregSpec == Init /\ [][UnregNext]_vars

\* ======================================================= the client's board
Slot == {"Blank", "X", "O"}

Direction == {"North", "NorthWest", "NorthEast", "South", "SouthWest",
              "SouthEast", "East", "West"}

\* Board::new: height rows of width Blank slots
BoardNew(height, width) ==
    [rows |-> [r \in 1..height |-> [c \in 1..width |-> "Blank"]],
     height |-> height, width |-> width]

\* try_get_row / try_get_row_mut: Vec::get finds the row
TryGetRowOk(b, row_index) == row_index >= 0 /\ row_index < Len(b.rows)

\* the Row try_get_row returns (indices count from 0)
TryGetRow(b, row_index) == b.rows[row_index + 1]

\* Row::get: &self.0[col]
Get(row, col) == row[col + 1]

\* Row::is_full
IsFull(row) == \A i \in 1..Len(row) : row[i] # "Blank"

SaturatingSub1(n) == IF n = 0 THEN 0 ELSE n - 1

\* usize::overflowing_sub(1).0
OverflowingSub1(n) == IF n = 0 THEN UsizeMax ELSE n - 1

\* Result<(usize, usize), GameError>
Ok(row_num, col) == [ok |-> TRUE, row |-> row_num, col |-> col]

Err(e) == [ok |-> FALSE, err |-> e]

\* Iterator::rev over the row's slots
Rev(spots) == [i \in 1..Len(spots) |-> spots[Len(spots) + 1 - i]]

FirstSpot(spots) == 0

FirstBlankOffByOne(spots) ==
    LET k == CHOOSE k \in 0..(Len(spots) - 1) :
                 /\ spots[k + 1] = "Blank"
                 /\ \A j \in 0..(k - 1) : spots[j + 1] # "Blank"
    IN  IF k + 1 < Len(spots) THEN k + 1 ELSE k

\* enumerate(): the count at which the loop meets the first Blank spot
FirstBlank(spots) ==
    CHOOSE k \in 0..(Len(spots) - 1) :
        /\ spots[k + 1] = "Blank"
        /\ \A j \in 0..(k - 1) : spots[j + 1] # "Blank"

\* *spot = slot, for the spot at 0-based index col of row row_num
SetSpot(b, row_num, col, slot) == [b EXCEPT !.rows[row_num + 1][col + 1] = slot]

\* Board::insert_from_left: the loop runs over iter_mut().rev()
InsertFromLeft(b, row_num, slot) ==
    IF ~TryGetRowOk(b, row_num)
    THEN [board |-> b, result |-> Err("NonexistentRow")]
    ELSE LET row == TryGetRow(b, row_num) IN
         IF IsFull(row)
         THEN [board |-> b, result |-> Err("FullRow")]
         ELSE LET col == FirstBlank(Rev(row)) IN
              [board  |-> SetSpot(b, row_num, Len(row) - col - 1, slot),
               result |-> Ok(row_num, Len(row) - col - 1)]

InsertFromRightOverwrite(b, row_num, slot) ==
    IF ~TryGetRowOk(b, row_num)
    THEN [board |-> b, result |-> Err("NonexistentRow")]
    ELSE LET row == TryGetRow(b, row_num)
             col == IF IsFull(row) THEN 0 ELSE FirstBlank(row)
         IN  [board  |-> SetSpot(b, row_num, col, slot),
              result |-> Ok(row_num, col)]

\* Board::insert_from_right: the loop runs over iter_mut()
InsertFromRight(b, row_num, slot) ==
    IF ~TryGetRowOk(b, row_num)
    THEN [board |-> b, result |-> Err("NonexistentRow")]
    ELSE LET row == TryGetRow(b, row_num) IN
         IF IsFull(row)
         THEN [board |-> b, result |-> Err("FullRow")]
         ELSE LET col == FirstBlank(row) IN
              [board  |-> SetSpot(b, row_num, col, slot),
               result |-> Ok(row_num, col)]

\* Board::recurse
RECURSIVE Recurse(_, _, _, _, _, _)
Recurse(b, slot, row_num, col, len_so_far, direction) ==
    IF slot = "Blank" THEN len_so_far
    ELSE CASE direction = "North" ->
                IF TryGetRowOk(b, OverflowingSub1(row_num))
                THEN IF slot = Get(TryGetRow(b, OverflowingSub1(row_num)), col)
                     THEN Recurse(b, slot, row_num - 1, col, len_so_far + 1, direction)
                     ELSE len_so_far
                ELSE len_so_far
           [] direction = "South" ->
                IF TryGetRowOk(b, row_num + 1)
                THEN IF slot = Get(TryGetRow(b, row_num + 1), col)
                     THEN Recurse(b, slot, row_num + 1, col, len_so_far + 1, direction)
                     ELSE len_so_far
                ELSE len_so_far
           [] direction = "East" ->
                IF col < b.width - 1 /\ slot = Get(TryGetRow(b, row_num), col + 1)
                THEN Recurse(b, slot, row_num, col + 1, len_so_far + 1, direction)
                ELSE len_so_far
           [] direction = "West" ->
                IF col > 0 /\ slot = Get(TryGetRow(b, row_num), col - 1)
                THEN Recurse(b, slot, row_num, col - 1, len_so_far + 1, direction)
                ELSE len_so_far
           [] direction = "NorthEast" ->
                IF TryGetRowOk(b, OverflowingSub1(row_num))
                THEN IF col < b.width - 1
                        /\ slot = Get(TryGetRow(b, OverflowingSub1(row_num)), col + 1)
                     THEN Recurse(b, slot, row_num - 1, col + 1, len_so_far + 1, direction)
                     ELSE len_so_far
                ELSE len_so_far
           [] direction = "NorthWest" ->
                IF TryGetRowOk(b, OverflowingSub1(row_num))
                THEN IF col > 0
                        /\ slot = Get(TryGetRow(b, OverflowingSub1(row_num)), col - 1)
                     THEN Recurse(b, slot, row_num - 1, col - 1, len_so_far + 1, direction)
                     ELSE len_so_far
                ELSE len_so_far
           [] direction = "SouthEast" ->
                IF TryGetRowOk(b, row_num + 1)
                THEN IF col < b.width - 1
                        /\ slot = Get(TryGetRow(b, row_num + 1), col + 1)
                     THEN Recurse(b, slot, row_num + 1, col + 1, len_so_far + 1, direction)
                     ELSE len_so_far
                ELSE len_so_far
           [] direction = "SouthWest" ->
                IF TryGetRowOk(b, row_num + 1)
                THEN IF col > 0
                        /\ slot = Get(TryGetRow(b, row_num + 1), col - 1)
                     THEN Recurse(b, slot, row_num + 1, col - 1, len_so_far + 1, direction)
                     ELSE len_so_far
                ELSE len_so_far

\* Option<Slot>
Some(slot) == [some |-> TRUE, slot |-> slot]

None == [some |-> FALSE]

IsThree(result) == result = 3

\* the closure |result| *result == 4
IsFour(result) == result = 4

\* Board::is_game_over: the vector of the four axis sums
SearchResults(b, row_num, col, slot) ==
    << Recurse(b, slot, row_num, col, 1, "North")
         + Recurse(b, slot, row_num, col, 1, "South") - 1,
       Recurse(b, slot, row_num, col, 1, "East")
         + Recurse(b, slot, row_num, col, 1, "West") - 1,
       Recurse(b, slot, row_num, col, 1, "NorthEast")
         + Recurse(b, slot, row_num, col, 1, "SouthWest") - 1,
       Recurse(b, slot, row_num, col, 1, "NorthWest")
         + Recurse(b, slot, row_num, col, 1, "SouthEast") - 1 >>

IsGameOverNoWest(b, row_num, col, slot) ==
    IF slot = "Blank" THEN [tag |-> "panic"]
    ELSE [tag |-> "Ok",
          value |-> IF \/ \E i \in {1, 3, 4} :
                            IsFour(SearchResults(b, row_num, col, slot)[i])
                       \/ IsFour(Recurse(b, slot, row_num, col, 1, "East"))
                    THEN Some(slot) ELSE None]

\* Board::is_game_over: panics on a Blank slot argument, else Some(slot) when
\* any of the four sums is 4
IsGameOver(b, row_num, col, slot) ==
    IF slot = "Blank" THEN [tag |-> "panic"]
    ELSE LET search_results == SearchResults(b, row_num, col, slot) IN
         [tag |-> "Ok",
          value |-> IF \E i \in 1..4 : IsFour(search_results[i])
                    THEN Some(slot) ELSE None]

\* ---------------------------------------------- insertions on one board
\* the non-Blank slots of a board
Pieces(b) ==
    Cardinality({rc \in (1..b.height) \X (1..b.width) : b.rows[rc[1]][rc[2]] # "Blank"})

InsertInit ==
    /\ ServerInit
    /\ SessionIdle
    /\ board = BoardNew(BoardHeight, BoardWidth)
    /\ call = NoCall
    /\ ret = NoRet

\* one call of insert_from_left on the board
InsertFromLeftCall(row_num, slot) ==
    LET r == InsertFromLeft(board, row_num, slot) IN
    /\ Pieces(board) < MaxPieces \/ ~r.result.ok
    /\ board' = r.board
    /\ call' = [op |-> "insert_from_left", row_num |-> row_num, slot |-> slot]
    /\ ret' = r.result
    /\ UNCHANGED <<svars, cvars>>

\* one call of insert_from_right on the board
InsertFromRightCall(row_num, slot) ==
    LET r == InsertFromRight(board, row_num, slot) IN
    /\ Pieces(board) < MaxPieces \/ ~r.result.ok
    /\ board' = r.board
    /\ call' = [op |-> "insert_from_right", row_num |-> row_num, slot |-> slot]
    /\ ret' = r.result
    /\ UNCHANGED <<svars, cvars>>

\* the callers pass any row number (one beyond the last row included) and a
\* player's slot
InsertNext ==
    \E row_num \in 0..BoardHeight, slot \in {"X", "O"} :
        \/ InsertFromLeftCall(row_num, slot)
        \/ InsertFromRightCall(row_num, slot)

InsertSpec == InsertInit /\ [][InsertNext]_vars

\* ------------------------------------- any caller of the board's methods
\* one call of the public is_game_over, at any coordinates of the board and
\* with any slot
IsGameOverAt(row_num, col, slot) ==
    /\ call' = [op |-> "is_game_over", row_num |-> row_num, col |-> col,
                slot |-> slot]
    /\ ret' = IsGameOver(board, row_num, col, slot)
    /\ UNCHANGED board
    /\ UNCHANGED <<svars, cvars>>

ProbeNext ==
    \/ InsertNext
    \/ \E row_num \in 0..(BoardHeight - 1), col \in 0..(BoardWidth - 1), slot \in Slot :
          IsGameOverAt(row_num, col, slot)

ProbeSpec == InsertInit /\ [][ProbeNext]_vars

\* ------------------------------- left insertions on the session's board
\* Session::new: Board::new(7, 7)
SevenInit ==
    /\ ServerInit
    /\ SessionIdle
    /\ board = BoardNew(Height, Width)
    /\ call = NoCall
    /\ ret = NoRet

\* Session::play: is_game_over at the coordinates the insertion returned,
\* with the slot inserted
CheckAfterInsert ==
    /\ call.op \in {"insert_from_left", "insert_from_right"}
    /\ ret.ok
    /\ call' = [op |-> "is_game_over", row_num |-> ret.row, col |-> ret.col,
                slot |-> call.slot]
    /\ ret' = IsGameOver(board, ret.row, ret.col, call.slot)
    /\ UNCHANGED board
    /\ UNCHANGED <<svars, cvars>>

SevenNext ==
    \/ \E row_num \in 0..(Height - 1), slot \in {"X", "O"} :
          InsertFromLeftCall(row_num, slot)
    \/ CheckAfterInsert

SevenSpec == SevenInit /\ [][SevenNext]_vars

\* -------------------------------------------- the win check on one board
Other(p) == IF p = "X" THEN "O" ELSE "X"

\* the step of one cell in a direction: North is towards row 0, West towards
\* column 0
Delta(direction) ==
    CASE direction = "North"     -> <<-1, 0>>
      [] direction = "South"     -> <<1, 0>>
      [] direction = "East"      -> <<0, 1>>
      [] direction = "West"      -> <<0, -1>>
      [] direction = "NorthEast" -> <<-1, 1>>
      [] direction = "NorthWest" -> <<-1, -1>>
      [] direction = "SouthEast" -> <<1, 1>>
      [] direction = "SouthWest" -> <<1, -1>>

InBounds(h, w, r, c) == r >= 0 /\ r < h /\ c >= 0 /\ c < w

\* the cells of an h x w board that lie beyond (r, c) in a direction
Avail(h, w, r, c, direction) ==
    Cardinality({n \in 1..(h + w) :
        InBounds(h, w, r + n * Delta(direction)[1], c + n * Delta(direction)[2])})

Abs(n) == IF n < 0 THEN -n ELSE n

Sign(n) == IF n < 0 THEN -1 ELSE IF n > 0 THEN 1 ELSE 0

\* the direction whose step is <<dr, dc>>
DirectionOf(dr, dc) == CHOOSE d \in Direction : Delta(d) = <<dr, dc>>

\* A full board around the slot written last at (r, c) by owner p: in each
\* direction k[d] further slots of p, then one of the other owner; beyond
\* that, and off the four axes, the other owner, or on the axes the two
\* owners in turn.
StarBoard(h, w, r, c, p, k, tail) ==
    [rows |-> [i \in 1..h |-> [j \in 1..w |->
        LET dr == i - 1 - r
            dc == j - 1 - c
            n  == IF Abs(dr) > Abs(dc) THEN Abs(dr) ELSE Abs(dc)
        IN  IF n = 0 THEN p
            ELSE IF dr = 0 \/ dc = 0 \/ Abs(dr) = Abs(dc)
                 THEN LET run == k[DirectionOf(Sign(dr), Sign(dc))] IN
                      IF n <= run THEN p
                      ELSE IF tail = "alternate" /\ (n - run) % 2 = 0 THEN p
                      ELSE Other(p)
                 ELSE Other(p)]],
     height |-> h, width |-> w]

WinInit ==
    /\ ServerInit
    /\ SessionIdle
    /\ ret = NoRet
    /\ \E r \in 0..(WinHeight - 1), c \in 0..(WinWidth - 1), p \in {"X", "O"},
          tail \in {"other", "alternate"} :
       \E kn \in 0..Avail(WinHeight, WinWidth, r, c, "North"),
          ks \in 0..Avail(WinHeight, WinWidth, r, c, "South"),
          ke \in 0..Avail(WinHeight, WinWidth, r, c, "East"),
          kw \in 0..Avail(WinHeight, WinWidth, r, c, "West") :
       \E kne \in 0..Avail(WinHeight, WinWidth, r, c, "NorthEast"),
          knw \in 0..Avail(WinHeight, WinWidth, r, c, "NorthWest"),
          kse \in 0..Avail(WinHeight, WinWidth, r, c, "SouthEast"),
          ksw \in 0..Avail(WinHeight, WinWidth, r, c, "SouthWest") :
          /\ board = StarBoard(WinHeight, WinWidth, r, c, p,
                 [d \in Direction |->
                    CASE d = "North" -> kn [] d = "South" -> ks
                      [] d = "East" -> ke [] d = "West" -> kw
                      [] d = "NorthEast" -> kne [] d = "NorthWest" -> knw
                      [] d = "SouthEast" -> kse [] d = "SouthWest" -> ksw],
                 tail)
          /\ call = [op |-> "is_game_over", row_num |-> r, col |-> c, slot |-> p]

\* one call of is_game_over, at the coordinates and with the slot just written
IsGameOverCall ==
    /\ call.op = "is_game_over"
    /\ ret = NoRet
    /\ ret' = IsGameOver(board, call.row_num, call.col, call.slot)
    /\ UNCHANGED <<board, call>>
    /\ UNCHANGED <<svars, cvars>>

WinNext == IsGameOverCall

WinSpec == WinInit /\ [][WinNext]_vars

\* ------------------------------------------------- a session's play loop
\* the characters that can make up a line typed on stdin
Digits == <<"0", "1", "2", "3", "4", "5", "6", "7", "8", "9">>

RowChars == {Digits[i + 1] : i \in 0..SessionHeight}

Quit == <<"q", "u", "i", "t">>

\* the lines typed: the quit command, a row or another character followed by
\* a side or another character, and lines of other lengths
Input == {Quit, <<"Q", "u", "i", "t">>, <<"0">>, <<" ", "0", "l", " ">>, <<"0", "l", "l">>}
             \cup {<<a, b>> : a \in RowChars \cup {"x"}, b \in {"l", "R", "x"}}

\* str::trim
Trim(chars) ==
    LET kept == {i \in 1..Len(chars) : chars[i] # " "} IN
    IF kept = {} THEN <<>>
    ELSE SubSeq(chars, CHOOSE i \in kept : \A j \in kept : i <= j,
                       CHOOSE i \in kept : \A j \in kept : i >= j)

\* str::to_lowercase, on the characters typed
ToLowercase(chars) ==
    [i \in 1..Len(chars) |->
        CASE chars[i] = "Q" -> "q" [] chars[i] = "L" -> "l"
          [] chars[i] = "R" -> "r" [] OTHER -> chars[i]]

\* char::to_digit(10)
ToDigit(ch) ==
    IF \E i \in 1..10 : Digits[i] = ch
    THEN [some |-> TRUE, num |-> (CHOOSE i \in 1..10 : Digits[i] = ch) - 1]
    ELSE None

SideFromCharLenient(ch) ==
    IF ch \in {"l", "L"} THEN [some |-> TRUE, side |-> "Left"]
    ELSE [some |-> TRUE, side |-> "Right"]

\* Move::try_from: the match on the second character
SideFromChar(ch) ==
    IF ch \in {"l", "L"} THEN [some |-> TRUE, side |-> "Left"]
    ELSE IF ch \in {"r", "R"} THEN [some |-> TRUE, side |-> "Right"]
    ELSE None

\* Move::try_from(String): two characters after trimming, a digit and a side
MoveTryFrom(command) ==
    LET chars == Trim(command) IN
    IF Len(chars) # 2 THEN Err("InvalidMoveFormat")
    ELSE IF ~ToDigit(chars[1]).some THEN Err("NonexistentRow")
    ELSE IF ~SideFromChar(chars[2]).some THEN Err("InvalidSide")
    ELSE [ok |-> TRUE, mov |-> [row |-> ToDigit(chars[1]).num,
                                side |-> SideFromChar(chars[2]).side]]

PushNothing(ts, mov) == ts

\* Session::play: self.turns.0.push(mov)
Push(ts, mov) == Append(ts, mov)

\* Session::play: the slot of the player whose turn it is
SlotOf(player) == IF player = "First" THEN "X" ELSE "O"

\* Session::play on each line typed: whether it is the quit command, and what
\* Move::try_from makes of it
ReadLine ==
    [input \in Input |->
        [quit |-> ToLowercase(Trim(input)) = Quit, parsed |-> MoveTryFrom(input)]]

\* Session::new, and play entered. The board is SessionHeight x SessionWidth
\* where Session::new builds Board::new(7, 7); play reads its size from the
\* board's own fields.
SessionInit ==
    /\ ServerInit
    /\ board = BoardNew(SessionHeight, SessionWidth)
    /\ call = NoCall
    /\ ret = NoRet
    /\ session = [current_player |-> "First", turns |-> <<>>, at |-> "loop"]
    /\ stream = NoTraffic

\* the top of the loop: as many turns as the board has cells
PlayTie ==
    /\ session.at = "loop"
    /\ Len(session.turns) = board.height * board.width
    /\ session' = [session EXCEPT !.at = "tie"]
    /\ UNCHANGED <<board, call, ret, stream>>
    /\ UNCHANGED svars

\* one iteration of the loop past the tie check, on one line of stdin
PlayInput(input) ==
    /\ session.at = "loop"
    /\ Len(session.turns) # board.height * board.width
    /\ UNCHANGED stream
    /\ UNCHANGED svars
    /\ IF ReadLine[input].quit
       THEN /\ session' = [session EXCEPT !.at = "quit"]
            /\ UNCHANGED <<board, call, ret>>
       ELSE LET parsed == ReadLine[input].parsed IN
            IF ~parsed.ok
            THEN UNCHANGED <<board, call, ret, session>>
            ELSE LET mov == parsed.mov
                     slot == SlotOf(session.current_player)
                     r == IF mov.side = "Left"
                          THEN InsertFromLeft(board, mov.row, slot)
                          ELSE InsertFromRight(board, mov.row, slot)
                 IN
                 IF ~r.result.ok
                 THEN /\ board' = r.board
                      /\ UNCHANGED <<call, ret, session>>
                 ELSE LET over == IsGameOver(r.board, r.result.row, r.result.col, slot) IN
                      /\ board' = r.board
                      /\ call' = [op |-> "is_game_over", row_num |-> r.result.row,
                                  col |-> r.result.col, slot |-> slot]
                      /\ ret' = over
                      /\ session' =
                           [session EXCEPT
                              !.turns = Push(@, mov),
                              !.at = IF over.value.some
                                     THEN IF over.value.slot = "X" THEN "won_first"
                                          ELSE "won_second"
                                     ELSE "loop",
                              !.current_player = IF over.value.some THEN @ ELSE Not(@)]

\* the lines typed in a whole game: the quit command, every row (one beyond
\* the last included) from either side, and a line that is no move
GameInput == {Quit, <<"0", "x">>} \cup {<<a, b>> : a \in RowChars, b \in {"l", "R"}}

SessionNext ==
    \/ PlayTie
    \/ \E input \in GameInput : PlayInput(input)

SessionSpec == SessionInit /\ [][SessionNext]_vars

\* ------------------------------------------- the first moves of a session
\* Session::new on a BoardHeight x BoardWidth board, and play entered
OpeningInit ==
    /\ ServerInit
    /\ board = BoardNew(BoardHeight, BoardWidth)
    /\ call = NoCall
    /\ ret = NoRet
    /\ session = [current_player |-> "First", turns |-> <<>>, at |-> "loop"]
    /\ stream = NoTraffic

\* the iterations of the loop while fewer than MaxPieces turns are recorded
PlayOpening(input) ==
    /\ Len(session.turns) < MaxPieces
    /\ PlayInput(input)

OpeningNext == \E input \in Input : PlayOpening(input)

OpeningSpec == OpeningInit /\ [][OpeningNext]_vars

\* ------------------------------------------- the client's wait for GameStart
\* serde_json::from_str::<Response>: only a Response decodes
FromStrResponseOk(m) ==
    m.tag \in {"Welcome", "GameStart", "GameFull", "NotYourTurn", "Response::Turn",
               "Acknowledged", "PlayerDisconnected", "ServerError"}

\* what connection.lines.next() yields while the connection is open: a line
\* (GameStart, another Response, or a line that is no Response) or a read error
Event == {[kind |-> "line", msg |-> m] :
             m \in {ResponseJson("GameStart"), ResponseJson("PlayerDisconnected"),
                    OtherLine}}
            \cup {[kind |-> "error"]}

\* what the server side has put on the connection, at most MaxLines events
Incoming == UNION {[1..n -> Event] : n \in 0..MaxLines}

\* main: Session::new, then process entered; the connection holds the events
\* to come and is closed after them (eof) or stays open and silent
WaitInit ==
    /\ ServerInit
    /\ board = BoardNew(Height, Width)
    /\ call = NoCall
    /\ ret = NoRet
    /\ session = [current_player |-> "First", turns |-> <<>>, at |-> "wait"]
    /\ \E q \in Incoming, eof \in BOOLEAN :
          stream = [sent |-> <<>>, received |-> <<>>, incoming |-> q, eof |-> eof]

\* process: one iteration of the loop that waits for GameStart. next()
\* resolves with the next event or, at end-of-stream, with None.
WaitPoll ==
    /\ session.at = "wait"
    /\ stream.incoming # <<>> \/ stream.eof
    /\ IF stream.incoming = <<>>
       THEN \* None: the `_ => {}` arm, and the loop goes round
            UNCHANGED <<session, stream>>
       ELSE LET ev == Head(stream.incoming) IN
            /\ stream' = [stream EXCEPT
                            !.incoming = Tail(@),
                            !.received = IF ev.kind = "line" THEN Append(@, ev.msg) ELSE @]
            /\ session' = [session EXCEPT !.at =
                             IF ev.kind = "error" THEN "wait"
                             ELSE IF ~FromStrResponseOk(ev.msg) THEN "failed"
                             ELSE IF ev.msg = ResponseJson("GameStart") THEN "loop"
                             ELSE "wait"]
    /\ UNCHANGED <<board, call, ret>>
    /\ UNCHANGED svars

WaitNext == WaitPoll

WaitSpec == WaitInit /\ [][WaitNext]_vars

\* the task that runs process is scheduled as long as it can take a step
FairWaitSpec == WaitSpec /\ WF_vars(WaitPoll)

\* ------------------------------------------------------- helper predicates
PlayerOfSlot(n) == IF n % 2 = 0 THEN "First" ELSE "Second"

AcceptedTurns == [i \in 1..Len(accepted) |-> accepted[i].turn]

Count(seq, tag) == Cardinality({i \in 1..Len(seq) : seq[i].tag = tag})

Answers == {"Acknowledged", "NotYourTurn"}

HasAnswer(seq) == \E i \in 1..Len(seq) : seq[i].tag \in Answers

Has(seq, tag) == \E i \in 1..Len(seq) : seq[i].tag = tag

\* task c leaves position `at` in this step
Leaves(c, at) == pc[c] = at /\ pc'[c] # at

\* c's pending line was read while slot Len(accepted)-1 was open, names the
\* player of that slot, and another connection's turn has taken the slot
LostRace(c) ==
    /\ msg[c].tag = "Turn"
    /\ pc[c] \in {"sock_lock", "sock_accept", "sock_reject"}
    /\ Len(accepted) = stamp[c] + 1
    /\ accepted[Len(accepted)].conn # c
    /\ accepted[Len(accepted)].turn.source = msg[c].turn.source

\* C1: two submissions naming the same value of current_player are never
\* both accepted for the same turn slot: the accepted submissions alternate
\* in source, only one task at a time is past the turn test, a submission
\* that raced for a slot another connection took is not accepted, and an
\* accepted submission appends its one turn and flips current_player once.
C1_OneAcceptedPerSlot ==
    /\ [](/\ \A i \in 1..(Len(accepted) - 1) :
               accepted[i].turn.source # accepted[i + 1].turn.source
          /\ \A c \in Conn : pc[c] = "sock_accept" =>
               /\ msg[c].turn.source = current_player
               /\ \A d \in Conn \ {c} : pc[d] # "sock_accept"
          /\ \A c \in Conn : LostRace(c) => pc[c] # "sock_accept")
    /\ [][\A c \in Conn :
            /\ Leaves(c, "sock_accept") =>
                 /\ turns' = Append(turns, msg[c].turn)
                 /\ current_player' # current_player
                 /\ current_player' = PlayerOfSlot(Len(accepted'))
            /\ (LostRace(c) /\ Leaves(c, "sock_reject")) =>
                 /\ turns' = turns
                 /\ current_player' = current_player
                 /\ chan'[c] = Append(chan[c], ResponseJson("NotYourTurn"))]_vars

C1_Witness == \E c \in Conn : LostRace(c) /\ pc[c] = "sock_reject"

\* C2: current_player is First after an even number of accepted turns and
\* Second after an odd number.
C2_TurnParity == current_player = PlayerOfSlot(Len(accepted))

C2_Witness == Len(accepted) >= 2 /\ current_player = "First"

\* C3: a submission whose source is not current_player is answered
\* NotYourTurn to its sender and changes neither turns, current_player nor
\* the peer map.
C3_RejectLeavesState ==
    [][\A c \in Conn :
        /\ (Leaves(c, "sock_lock") /\ FromStrTurnOk(msg[c])
              /\ msg[c].turn.source # current_player)
           => (pc'[c] = "sock_reject" /\ turns' = turns /\ players' = players
               /\ current_player' = current_player)
        /\ Leaves(c, "sock_reject")
           => (/\ chan'[c] = Append(chan[c], ResponseJson("NotYourTurn"))
               /\ \A d \in Conn \ {c} : chan'[d] = chan[d]
               /\ turns' = turns /\ players' = players
               /\ current_player' = current_player)]_vars

C3_Witness == \E c \in Conn : Has(chan[c], "NotYourTurn")

\* C4: turns is exactly the sequence of accepted turns, in acceptance order.
C4_HistoryIsAcceptedTurns == turns = AcceptedTurns

\* C5: accepting a turn enqueues one copy of it for every other registered
\* peer and none for the submitter, and one Acknowledged for the submitter
\* and none for the others.
C5_AsymmetricNotification ==
    [][\A c \in Conn : Leaves(c, "sock_accept") =>
        /\ chan'[c] = Append(chan[c], ResponseJson("Acknowledged"))
        /\ \A d \in players \ {c} : chan'[d] = Append(chan[d], msg[c])
        /\ \A d \in Conn \ players : chan'[d] = chan[d]]_vars

\* C6: a turn submission read from a peer's socket is eventually answered
\* with Acknowledged or NotYourTurn on that peer's socket (unless the client
\* itself ended the session first: end of stream or an undecodable line).
C6_SubmissionAnswered ==
    \A c \in Conn :
        (pc[c] = "sock_lock" /\ FromStrTurnOk(msg[c]))
            ~> (HasAnswer(lines[c]) \/ pc[c] \in {"done", "bad_line"})

\* C7: when the second peer registers, GameStart goes to both registered
\* peers: after the broadcast each live registered peer has GameStart queued
\* or written.
C7_GameStartToBoth ==
    [][\A c \in Conn :
        (Leaves(c, "start") /\ number[c] = 2 /\ Cardinality(players) = 2) =>
        \A d \in players : rx_open[d] =>
            (Has(chan'[d], "GameStart") \/ Has(lines'[d], "GameStart"))]_vars

\* C8: a registered peer gets exactly one Welcome, first on its socket, with
\* the configured height and width and its player: First for the peer that
\* registered first, Second for the peer that registered second.
C8_WelcomeFirst ==
    \A c \in Conn :
        /\ lines[c] # <<>> =>
              lines[c][1] = WelcomeJson(IF number[c] = 1 THEN "First" ELSE "Second",
                                        Height, Width)
        /\ Count(lines[c], "Welcome") <= 1
        /\ (number[c] > 0 /\ pc[c] # "welcome") => Count(lines[c], "Welcome") = 1

C8_Witness ==
    \E c, d \in Conn :
        /\ lines[c] # <<>> /\ lines[c][1].player = "First"
        /\ Len(lines[d]) >= 2 /\ lines[d][1].player = "Second"

\* C9: the peer map never has more than 2 entries, and a registration
\* attempted while 2 peers are registered changes neither the peer map, the
\* turn history nor current_player.
C9_AtMostTwoPeers ==
    /\ [](Cardinality(players) <= 2)
    /\ [][\A c \in Conn : (Leaves(c, "idle") /\ Cardinality(players) = 2) =>
            (players' = players /\ turns' = turns
             /\ current_player' = current_player)]_vars

C9_Witness ==
    \E c \in Conn : pc[c] = "panicked" /\ number[c] = 0 /\ Cardinality(players) = 2

\* C10: a connection attempted while two peers are registered gets GameFull
\* on its socket, and its task does not fault before that.
C10_GameFullDelivered ==
    \A c \in Conn : (number[c] = 0 /\ pc[c] # "idle") =>
        (pc[c] # "panicked" /\ Has(lines[c], "GameFull"))

\* ------------------------------------------------------------- C11 .. C17
\* the positions at which a task that registered has returned
Ended == {"done", "bad_line", "bad_relay"}

\* C11: a registered peer's session that has ended, by end of stream or by a
\* decode error on a received line, has left the peer map: no task that has
\* returned still has its address registered.
C11_EndedSessionUnregistered ==
    \A c \in Conn : pc[c] \in Ended => c \notin players

\* the step in which task c runs the disconnect block
Unregisters(c) == Leaves(c, "loop") /\ pc'[c] = "done"

\* C12: unregistering a registered peer enqueues exactly one
\* PlayerDisconnected for every other registered peer, nothing for anybody
\* else, and nothing for the departing peer.
C12_OneNoticePerRemainingPeer ==
    [][\A c \in Conn : Unregisters(c) =>
          /\ \A d \in Conn \ {c} :
                chan'[d] = IF d \in players
                           THEN Append(chan[d], ResponseJson("PlayerDisconnected"))
                           ELSE chan[d]
          /\ ~Has(chan'[c], "PlayerDisconnected")]_vars

\* C13: unregistering removes the departing peer's entry and nothing else;
\* the turn history and current_player stay as they were, also when the last
\* player leaves.
C13_UnregisterFrame ==
    [][\A c \in Conn : Unregisters(c) =>
          /\ players' = players \ {c}
          /\ turns' = turns
          /\ current_player' = current_player]_vars

\* the last player has left after a turn was accepted
C13_Witness ==
    \E c \in Conn :
        /\ pc[c] = "done"
        /\ players = {}
        /\ turns # <<>>
        /\ current_player = "Second"

\* C14: the disconnect block run for an address that is not in the peer map
\* changes nothing: the peer map, the history, current_player and every
\* channel are as before.
C14_AbsentUnregisterNoOp ==
    [][\A c \in Conn : (pc[c] = "idle" /\ pc'[c] = "done") =>
          /\ players' = players
          /\ turns' = turns
          /\ current_player' = current_player
          /\ chan' = chan]_vars

\* C15: no task holds the shared-state lock at a point where it writes to
\* its socket (the Welcome write, the relayed Turn write).
C15_NoSocketWriteUnderLock ==
    \A c \in Conn : pc[c] \in {"welcome", "relay_write"} => mutex # c

\* Session::play: the insertion a turn stands for
ApplyTurn(b, t) ==
    IF t.mov.side = "Left"
    THEN InsertFromLeft(b, t.mov.row, SlotOf(t.source))
    ELSE InsertFromRight(b, t.mov.row, SlotOf(t.source))

\* the board after the turns of ts, and whether every insertion succeeded
RECURSIVE Replay(_, _)
Replay(b, ts) ==
    IF ts = <<>> THEN [board |-> b, ok |-> TRUE]
    ELSE LET r == ApplyTurn(b, Head(ts))
             rest == Replay(r.board, Tail(ts))
         IN  [board |-> rest.board, ok |-> r.result.ok /\ rest.ok]

\* C16: every turn of the server's history is an insertion that succeeds on
\* the height x width board built from the history, so the length of the
\* history plus the number of Blank slots is height x width.
C16_HistoryFitsBoard ==
    LET r == Replay(BoardNew(Height, Width), turns) IN
    /\ r.ok
    /\ Len(turns) <= Height * Width
    /\ Len(turns) + (Height * Width - Pieces(r.board)) = Height * Width

\* C17: a received line that does not decode as a turn submission is
\* answered with ServerError, leaves history and current_player alone, and
\* the session goes on reading.
C17_BadLineAnswered ==
    [][\A c \in Conn :
          (Leaves(c, "sock_lock") /\ ~FromStrTurnOk(msg[c])) =>
              /\ pc'[c] = "loop"
              /\ chan'[c] = Append(chan[c], ResponseJson("ServerError"))
              /\ turns' = turns
              /\ current_player' = current_player]_vars

\* ------------------------------------------------------------- C18 .. C20
\* the slot at 0-based coordinates
Cell(b, r, c) == b.rows[r + 1][c + 1]

\* one direction for each of the four axes
Axis == {"South", "East", "NorthEast", "SouthEast"}

\* four consecutive slots of p, (r, c) among them, on the axis of direction d
HasFour(b, r, c, p, d) ==
    \E s \in (-3)..0 : \A i \in s..(s + 3) :
        /\ InBounds(b.height, b.width, r + i * Delta(d)[1], c + i * Delta(d)[2])
        /\ Cell(b, r + i * Delta(d)[1], c + i * Delta(d)[2]) = p

\* is_game_over has returned for the slot of owner call.slot at its coordinates
Checked ==
    /\ call.op = "is_game_over"
    /\ ret.tag = "Ok"
    /\ Cell(board, call.row_num, call.col) = call.slot

\* C18: when the run of the owner's slots through the checked coordinates is
\* four or longer on some axis, is_game_over returns Some(owner).
C18_LongRunWins ==
    (Checked /\ \E d \in Axis : HasFour(board, call.row_num, call.col, call.slot, d))
        => ret.value = Some(call.slot)

BlankColumns(row) == {c \in 0..(Len(row) - 1) : row[c + 1] = "Blank"}

\* C20: a successful insertion from the left writes the lowest-index Blank
\* column of the row, one from the right the highest-index Blank column, and
\* the coordinates returned are those of the slot written.
C20_InsertFromNamedEdge ==
    [][(call'.op \in {"insert_from_left", "insert_from_right"} /\ ret'.ok) =>
          LET blanks == BlankColumns(TryGetRow(board, call'.row_num)) IN
          /\ ret'.row = call'.row_num
          /\ ret'.col \in blanks
          /\ \A c \in blanks : IF call'.op = "insert_from_left"
                               THEN ret'.col <= c ELSE ret'.col >= c
          /\ board' = SetSpot(board, ret'.row, ret'.col, call'.slot)]_vars

\* ------------------------------------------------------------- C21 .. C22
\* the step is a call of one of the two insertions
Inserts == call'.op \in {"insert_from_left", "insert_from_right"}

\* the 0-based coordinates of a board
Coords(b) == (0..(b.height - 1)) \X (0..(b.width - 1))

\* C21: a successful insertion changes exactly one slot, the one at the
\* coordinates returned, which was Blank before and holds the inserted slot
\* after; every other slot and the dimensions stay as they were.
C21_InsertWritesOneBlank ==
    [][(Inserts /\ ret'.ok) =>
          /\ <<ret'.row, ret'.col>> \in Coords(board)
          /\ Cell(board, ret'.row, ret'.col) = "Blank"
          /\ Cell(board', ret'.row, ret'.col) = call'.slot
          /\ \A rc \in Coords(board) \ {<<ret'.row, ret'.col>>} :
                Cell(board', rc[1], rc[2]) = Cell(board, rc[1], rc[2])
          /\ board'.height = board.height
          /\ board'.width = board.width]_vars

\* an insertion has succeeded on a board that already held a slot of each owner
C21_Witness ==
    /\ call.op \in {"insert_from_left", "insert_from_right"}
    /\ ret.ok
    /\ Cell(board, ret.row, ret.col) = call.slot
    /\ \E rc \in Coords(board) \ {<<ret.row, ret.col>>} : Cell(board, rc[1], rc[2]) = "X"
    /\ \E rc \in Coords(board) \ {<<ret.row, ret.col>>} : Cell(board, rc[1], rc[2]) = "O"

\* C22: an insertion with a row number at or beyond the height fails with
\* NonexistentRow, one into a row without a Blank slot fails with FullRow,
\* both leave the board as it was; an insertion into an existing row with a
\* Blank slot succeeds; a row without a Blank slot stays so.
C22_InsertFailures ==
    [][Inserts =>
          /\ IF call'.row_num >= board.height
             THEN ret' = Err("NonexistentRow") /\ board' = board
             ELSE IF BlankColumns(TryGetRow(board, call'.row_num)) = {}
                  THEN ret' = Err("FullRow") /\ board' = board
                  ELSE ret'.ok
          /\ \A r \in 0..(board.height - 1) :
                BlankColumns(TryGetRow(board, r)) = {}
                    => BlankColumns(TryGetRow(board', r)) = {}]_vars

\* an insertion into a full row has failed with FullRow
C22_Witness ==
    /\ call.op \in {"insert_from_left", "insert_from_right"}
    /\ ret = Err("FullRow")
    /\ BlankColumns(TryGetRow(board, call.row_num)) = {}

\* an insertion beyond the last row has failed with NonexistentRow
C22_WitnessRow ==
    /\ call.op \in {"insert_from_left", "insert_from_right"}
    /\ ret = Err("NonexistentRow")
    /\ Pieces(board) > 0

\* ------------------------------------------------------------- C29 .. C30
\* the step in which task c takes the next message off its relay channel
TakesRelayed(c) ==
    /\ pc[c] = "loop"
    /\ chan[c] # <<>>
    /\ pc'[c] \in {"relay_write", "bad_relay"}

\* C29: a message taken from a peer's relay channel, whatever its kind, is
\* written to that peer's socket next, and taking it never ends the session.
C29_RelayedToSocket ==
    [][\A c \in Conn : TakesRelayed(c) =>
          /\ pc'[c] = "relay_write"
          /\ msg'[c] = Head(chan[c])]_vars

\* C30: every accepted turn names the player that was assigned to the
\* connection it came from.
C30_SourceIsAssignedPlayer ==
    \A i \in 1..Len(accepted) :
        accepted[i].turn.source = FromU32(number[accepted[i].conn])

\* ------------------------------------------------------------- C26 .. C28
\* the board turned by 180 degrees: (r, c) goes to (height-1-r, width-1-c)
Rotate180(b) ==
    [rows |-> [i \in 1..b.height |-> [j \in 1..b.width |->
                  b.rows[b.height + 1 - i][b.width + 1 - j]]],
     height |-> b.height, width |-> b.width]

\* C26: is_game_over returns for the turned board and the turned coordinates
\* what it returns for the board, and whichever order the four sums are
\* looked at in, the answer is the same.
C26_RotationAndAxisOrder ==
    Checked =>
        LET sums == SearchResults(board, call.row_num, call.col, call.slot)
            wins == {i \in 1..4 : IsFour(sums[i])}
        IN  /\ ret = IsGameOver(Rotate180(board), board.height - 1 - call.row_num,
                                board.width - 1 - call.col, call.slot)
            /\ \A order \in Permutations(1..4) :
                  (ret.value = Some(call.slot)) <=> \E i \in 1..4 : order[i] \in wins

\* a win was returned on a board that differs from its turned image
C26_Witness ==
    /\ Checked
    /\ ret.value = Some(call.slot)
    /\ Rotate180(board) # board
    /\ call.row_num # board.height - 1 - call.row_num

\* the slots recurse reads in one direction: those equal to the owner's, and
\* the first other one if the board has one there
CellsExamined(b, slot, row_num, col, direction) ==
    LET run == Recurse(b, slot, row_num, col, 1, direction) - 1 IN
    IF InBounds(b.height, b.width,
                row_num + (run + 1) * Delta(direction)[1],
                col + (run + 1) * Delta(direction)[2])
    THEN run + 1 ELSE run

\* C28: one call of is_game_over reads at most 3 slots beyond the origin in
\* each of the 8 directions.
C28_AtMostThreePerDirection ==
    Checked => \A d \in Direction :
        CellsExamined(board, call.slot, call.row_num, call.col, d) <= 3

\* ------------------------------------------------------------------- C23
\* the board holds k slots, all of them X in row 3
OnlyFirstInRowThree(k) ==
    /\ Pieces(board) = k
    /\ \A rc \in Coords(board) :
          Cell(board, rc[1], rc[2]) # "Blank"
              => rc[1] = 3 /\ Cell(board, rc[1], rc[2]) = "X"

\* C23: on the empty 7 x 7 board the k-th of four left insertions by First
\* into row 3 writes (3, k-1), and the win check after the fourth, at (3, 3),
\* returns First's slot.
C23_FourLeftInRowThree ==
    /\ \A k \in 1..4 :
          (call.op = "insert_from_left" /\ ret.ok /\ OnlyFirstInRowThree(k))
              => /\ ret = Ok(3, k - 1)
                 /\ \A c \in 0..(k - 1) : Cell(board, 3, c) = "X"
    /\ (call.op = "is_game_over" /\ OnlyFirstInRowThree(4))
          => /\ call.row_num = 3
             /\ call.col = 3
             /\ ret = [tag |-> "Ok", value |-> Some("X")]

\* ------------------------------------------------------------------- C27
\* C27: is_game_over called at coordinates whose slot on the board is Blank
\* aborts; it does not return.
C27_BlankOriginAborts ==
    (call.op = "is_game_over" /\ Cell(board, call.row_num, call.col) = "Blank")
        => ret.tag = "panic"

\* ------------------------------------------------------------- C24, C25
\* the session's board has as many recorded turns as cells
BoardFilled == Len(session.turns) = board.height * board.width

\* the move just played completed four in a row of its slot on some axis
LastMoveMadeFour ==
    /\ call.op = "is_game_over"
    /\ \E d \in Axis : HasFour(board, call.row_num, call.col, call.slot, d)

Won == {"won_first", "won_second"}

\* C24: play reports a tie only when the recorded turns equal height x width
\* and the move that filled the board made no four in a row; a move that both
\* fills the board and completes four in a row ends the game as a win.
C24_TieOnlyWithoutWin ==
    /\ session.at = "tie" => (BoardFilled /\ ~LastMoveMadeFour)
    /\ (session.at # "none" /\ BoardFilled /\ LastMoveMadeFour) => session.at \in Won
    /\ (session.at # "none" /\ BoardFilled /\ ~LastMoveMadeFour) => session.at \in {"loop", "tie"}

\* the answers of the server that play has read from the stream
Permits == {"Acknowledged", "Turn"}

\* C25: every turn play has applied to the session's board and recorded was
\* first sent to the server or received from it: the turns recorded never
\* outnumber the Acknowledged and Turn messages read from the stream.
C25_AppliedAfterServerAnswer ==
    session.at # "none" =>
        Len(session.turns) <=
            Cardinality({i \in 1..Len(stream.received) : stream.received[i].tag \in Permits})

\* ------------------------------------------------------------- C31, C32
\* a step of the server that accepts a turn
Accepts == Len(accepted') > Len(accepted)

\* C31: the server accepts a turn only while two peers are registered, so
\* that every accepted turn has an opponent's channel to be relayed to.
C31_AcceptNeedsTwoPeers == [][Accepts => Cardinality(players) = 2]_vars

\* C32: two peers registered at the same time were assigned different
\* players, one First and one Second.
C32_DistinctPlayers ==
    \A c \in players, d \in players :
        c # d => FromU32(number[c]) # FromU32(number[d])

\* ------------------------------------------------------------- C33, C34
\* the row a digit character names
RowNamed(ch) == CHOOSE n \in 0..9 : Digits[n + 1] = ch

\* the line is not the quit command and is no playable move on the session's
\* board: not two characters, no digit first, no side second, a row the
\* board does not have, or a row without a Blank slot
Unplayable(input) ==
    LET kept == SelectSeq(input, LAMBDA ch : ch # " ") IN
    /\ kept \notin {Quit, <<"Q", "u", "i", "t">>}
    /\ \/ Len(kept) # 2
       \/ kept[1] \notin {Digits[i] : i \in 1..10}
       \/ kept[2] \notin {"l", "L", "r", "R"}
       \/ RowNamed(kept[1]) >= board.height
       \/ BlankColumns(board.rows[RowNamed(kept[1]) + 1]) = {}

\* C33: an iteration of play on an input that fails (unparsable move, invalid
\* side, nonexistent row, full row) leaves the board, the recorded turns and
\* current_player unchanged and play stays in its loop, prompting the same
\* player again.
C33_FailedInputKeepsState ==
    [][\A input \in Input :
          (Unplayable(input) /\ PlayInput(input)) =>
              /\ board' = board
              /\ session'.turns = session.turns
              /\ session'.current_player = session.current_player
              /\ session'.at = "loop"]_vars

\* play is in its loop with a row full, a row with a Blank slot, and moves
\* recorded: every kind of failing input is typed there
C33_Witness ==
    /\ session.at = "loop"
    /\ Len(session.turns) >= BoardWidth
    /\ \E r \in 1..board.height : BlankColumns(board.rows[r]) = {}
    /\ \E r \in 1..board.height : BlankColumns(board.rows[r]) # {}
    /\ \E input \in Input : Unplayable(input) /\ Len(Trim(input)) = 2
                               /\ MoveTryFrom(input).ok
                               /\ MoveTryFrom(input).mov.row < board.height

\* C34: while play runs, the recorded turns are as many as the non-Blank
\* slots of the session's board, and current_player is First exactly when
\* that number is even.
C34_TurnsCountPieces ==
    session.at # "none" =>
        /\ Len(session.turns) = Pieces(board)
        /\ session.at = "loop" =>
              (session.current_player = "First" <=> Pieces(board) % 2 = 0)

C34_Witness ==
    /\ session.at = "loop"
    /\ Len(session.turns) >= 3
    /\ session.current_player = "Second"
    /\ Pieces(board) = Len(session.turns)

\* ------------------------------------------------------------------ C35
\* the columns of a set are one interval
Contiguous(cols) ==
    \A a \in cols, b \in cols : \A c \in a..b : c \in cols

\* C35: after any sequence of insert_from_left and insert_from_right on the
\* empty board, the Blank slots of every row are one contiguous interval of
\* columns.
C35_BlanksContiguous ==
    \A r \in 1..board.height : Contiguous(BlankColumns(board.rows[r]))

\* a successful insertion into a row that holds pieces at both ends and a
\* Blank slot between them
C35_Witness ==
    /\ call.op \in {"insert_from_left", "insert_from_right"}
    /\ ret.ok
    /\ \E r \in 1..board.height :
          /\ board.rows[r][1] # "Blank"
          /\ board.rows[r][board.width] # "Blank"
          /\ BlankColumns(board.rows[r]) # {}

\* ------------------------------------------------------------------ C36
\* Row::get: &self.0[col] panics unless col is an index of the row
GetInRange(row, col) == col >= 0 /\ col < Len(row)

\* Board::recurse, followed for its index arithmetic: TRUE when some step of
\* the walk in one direction faults, that is when row_num - 1, col - 1 or
\* width - 1 goes below zero, try_get_row(row_num).unwrap() meets no row, or
\* Row::get is given a column the row does not have
RECURSIVE RecurseFaults(_, _, _, _, _)
RecurseFaults(b, slot, row_num, col, direction) ==
    LET dr == Delta(direction)[1]
        dc == Delta(direction)[2]
        row_index == CASE dr = -1 -> OverflowingSub1(row_num)
                       [] dr = 1  -> row_num + 1
                       [] dr = 0  -> row_num
    IN
    IF slot = "Blank" THEN FALSE
    ELSE IF ~TryGetRowOk(b, row_index) THEN dr = 0
    ELSE IF dc = 1 /\ b.width = 0 THEN TRUE
    ELSE IF (dc = 1 /\ ~(col < b.width - 1)) \/ (dc = -1 /\ ~(col > 0)) THEN FALSE
    ELSE IF ~GetInRange(TryGetRow(b, row_index), col + dc) THEN TRUE
    ELSE IF slot # Get(TryGetRow(b, row_index), col + dc) THEN FALSE
    ELSE \/ row_num + dr < 0
         \/ RecurseFaults(b, slot, row_num + dr, col + dc, direction)

\* C36: on every board and for every origin on it, the edges and corners
\* included, the win check reads no slot outside the board and its row and
\* column arithmetic never faults: called with a player's slot, is_game_over
\* returns.
C36_WinCheckStaysOnBoard ==
    (call.op = "is_game_over" /\ board.height >= 1 /\ board.width >= 1
         /\ InBounds(board.height, board.width, call.row_num, call.col)) =>
        /\ \A d \in Direction :
              ~RecurseFaults(board, call.slot, call.row_num, call.col, d)
        /\ call.slot # "Blank" => ret.tag \in {"none", "Ok"}

\* is_game_over has returned for an origin in a corner of the board from
\* which the owner's slots run to the far edge
C36_Witness ==
    /\ Checked
    /\ call.row_num = 0
    /\ call.col = board.width - 1
    /\ Recurse(board, call.slot, call.row_num, call.col, 1, "South") = board.height
    /\ Recurse(board, call.slot, call.row_num, call.col, 1, "SouthWest") > 1

\* ------------------------------------------------------------------ C37
\* process is waiting for GameStart and the next thing its connection yields
\* is a read error or the end of the stream
EndsBeforeGameStart ==
    /\ session.at = "wait"
    /\ \/ stream.incoming = <<>> /\ stream.eof
       \/ stream.incoming # <<>> /\ Head(stream.incoming).kind = "error"

\* C37: when the connection reaches end-of-stream or yields a read error
\* before GameStart has arrived, the client's process returns with an error
\* instead of waiting on.
C37_WaitTerminates == EndsBeforeGameStart ~> session.at = "failed"

====
